---- MODULE Spec2Model ----
(***************************************************************************)
(* A model of news_monitor.py (class NewsMonitor): the feed fetch and its  *)
(* regex parsing, title cleaning, keyword matching, rendering, the Brevo   *)
(* send, and the orchestration run_daily_digest / run_keyword_monitor /    *)
(* run.                                                                    *)
(*                                                                         *)
(* A Python str is a sequence of one-character strings, so the regular     *)
(* expressions, str.replace, str.strip, str.lower and the `in` test are    *)
(* computed character by character.                                        *)
(***************************************************************************)
EXTENDS Integers, Sequences, FiniteSets, TLC

VARIABLES
    pc,                 \* position of the running call
    entry,              \* which method was called
    MONITORED_KEYWORDS, \* the configured keyword list (module global)
    k,                  \* index of the keyword the for loop is at
    text,               \* argument of _clean_html
    cleaned,            \* _clean_html(text)
    recleaned,          \* _clean_html(cleaned)
    response,           \* what requests.get produced for the last fetch
    feed_blocks,        \* the item blocks the response body was put together from
    news_items,         \* fetch result / the digest's article list
    keyword,            \* the keyword being processed
    keyword_news,       \* result of the keyword search fetch
    all_news,           \* news_items + keyword_news
    unique_news,        \* all_news without later duplicates of a title
    matching_items,     \* check_keyword_in_news(unique_news, keyword)
    html_content,       \* the last rendered document
    log,                \* every GET, render and POST, in order
    last_send,          \* the last send_email call: recipient, outcome, return
    raised              \* TRUE when an exception escaped to the caller

vars == <<pc, entry, MONITORED_KEYWORDS, k, text, cleaned, recleaned, response,
          feed_blocks, news_items, keyword, keyword_news, all_news, unique_news,
          matching_items, html_content, log, last_send, raised>>

\* an Optional value is a sequence of none or one value
None == <<>>
Some(v) == <<v>>

RECURSIVE Flatten(_)
Flatten(ss) == IF ss = <<>> THEN <<>> ELSE Head(ss) \o Flatten(Tail(ss))

----------------------------------------------------------------------------
(* Python str primitives over sequences of characters.                      *)

\* s[i:] starts with p  (1-based i)
StartsAt(s, i, p) ==
    /\ i >= 1
    /\ i + Len(p) - 1 <= Len(s)
    /\ SubSeq(s, i, i + Len(p) - 1) = p

\* s.find(p, from): the lowest index >= from where p occurs, 0 when none
Find(s, p, from) ==
    LET hits == {i \in from..(Len(s) - Len(p) + 1) : StartsAt(s, i, p)}
    IN  IF hits = {} THEN 0 ELSE CHOOSE i \in hits : \A j \in hits : i <= j

\* p in s
Contains(s, p) == Find(s, p, 1) # 0

\* s.replace(old, new): left to right, non-overlapping (old is never empty here)
RECURSIVE Replace(_, _, _)
Replace(s, old, new) ==
    LET i == Find(s, old, 1)
    IN  IF i = 0 THEN s
        ELSE SubSeq(s, 1, i - 1) \o new
             \o Replace(SubSeq(s, i + Len(old), Len(s)), old, new)

\* The characters a str of the model is made of, each at its code point:
\* U+0001 to U+00FF without U+0060 (the backtick), which a string of the
\* module cannot hold, as it cannot hold a character above U+00FF.
CharsBelowBacktick ==
    <<"", "", "", "", "", "", "", "", "\t", "\n", "", "\f",
      "\r", "", "", "", "", "", "", "", "", "", "", "",
      "", "", "", "", "", "", "", " ", "!", "\"", "#", "$",
      "%", "&", "'", "(", ")", "*", "+", ",", "-", ".", "/", "0",
      "1", "2", "3", "4", "5", "6", "7", "8", "9", ":", ";", "<",
      "=", ">", "?", "@", "A", "B", "C", "D", "E", "F", "G", "H",
      "I", "J", "K", "L", "M", "N", "O", "P", "Q", "R", "S", "T",
      "U", "V", "W", "X", "Y", "Z", "[", "\\", "]", "^", "_">>

CharsAboveBacktick ==
    <<"a", "b", "c", "d", "e", "f", "g", "h", "i", "j", "k", "l",
      "m", "n", "o", "p", "q", "r", "s", "t", "u", "v", "w", "x",
      "y", "z", "{", "|", "}", "~", "", "", "", "", "", "",
      "", "", "", "", "", "", "", "", "", "", "", "",
      "", "", "", "", "", "", "", "", "", "", "", "",
      "", "", "", " ", "¡", "¢", "£", "¤", "¥", "¦", "§", "¨",
      "©", "ª", "«", "¬", "­", "®", "¯", "°", "±", "²", "³", "´",
      "µ", "¶", "·", "¸", "¹", "º", "»", "¼", "½", "¾", "¿", "À",
      "Á", "Â", "Ã", "Ä", "Å", "Æ", "Ç", "È", "É", "Ê", "Ë", "Ì",
      "Í", "Î", "Ï", "Ð", "Ñ", "Ò", "Ó", "Ô", "Õ", "Ö", "×", "Ø",
      "Ù", "Ú", "Û", "Ü", "Ý", "Þ", "ß", "à", "á", "â", "ã", "ä",
      "å", "æ", "ç", "è", "é", "ê", "ë", "ì", "í", "î", "ï", "ð",
      "ñ", "ò", "ó", "ô", "õ", "ö", "÷", "ø", "ù", "ú", "û", "ü",
      "ý", "þ", "ÿ">>

Codes == (1..255) \ {96}

\* chr(n) and ord(c)
chr(n) == IF n < 96 THEN CharsBelowBacktick[n] ELSE CharsAboveBacktick[n - 96]
ord == [c \in {chr(n) : n \in Codes} |-> CHOOSE n \in Codes : chr(n) = c]

\* the characters str.isspace() holds of, which str.strip() trims: \t \n
\* \v \f \r, U+001C to U+001F, the blank, U+0085 and U+00A0 (the spaces
\* above U+00FF are no characters of the model)
Whitespace == {chr(n) : n \in (9..13) \cup (28..32) \cup {133, 160}}

\* s.strip()
Strip(s) ==
    LET keep == {i \in 1..Len(s) : s[i] \notin Whitespace}
    IN  IF keep = {} THEN <<>>
        ELSE SubSeq(s, CHOOSE i \in keep : \A j \in keep : i <= j,
                       CHOOSE i \in keep : \A j \in keep : i >= j)

LowerCase == <<"a","b","c","d","e","f","g","h","i","j","k","l","m",
               "n","o","p","q","r","s","t","u","v","w","x","y","z">>

\* the characters str.lower() changes: A to Z, and U+00C0 to U+00DE but the
\* multiplication sign U+00D7; each goes to the character 32 code points up
Capitals == (65..90) \cup ((192..222) \ {215})
LowerOf == [c \in {chr(n) : n \in Capitals} |-> chr(ord[c] + 32)]

LowerChar(c) == IF c \in DOMAIN LowerOf THEN LowerOf[c] ELSE c

\* s.lower()
Lower(s) == [i \in 1..Len(s) |-> LowerChar(s[i])]

\* re.sub(r'<[^>]+>', '', s): a '<', one or more characters other than '>',
\* then '>'; leftmost match first, scanning on after each match.
RECURSIVE StripTags(_)
StripTags(s) ==
    LET opens == {i \in 1..Len(s) :
                    /\ s[i] = "<"
                    /\ i + 1 <= Len(s)
                    /\ s[i + 1] # ">"
                    /\ \E j \in (i + 2)..Len(s) : s[j] = ">"}
    IN  IF opens = {} THEN s
        ELSE LET i == CHOOSE x \in opens : \A y \in opens : x <= y
                 j == Find(s, <<">">>, i + 2)
             IN  SubSeq(s, 1, i - 1) \o StripTags(SubSeq(s, j + 1, Len(s)))

AMP  == <<"&","a","m","p",";">>
LT   == <<"&","l","t",";">>
GT   == <<"&","g","t",";">>
QUOT == <<"&","q","u","o","t",";">>
APOS == <<"&","#","3","9",";">>

\* A slip of _clean_html: the whitespace is trimmed before the tags are removed.
CleanTrimFirst(t) ==
    Replace(Replace(Replace(Replace(Replace(StripTags(Strip(t)),
        AMP, <<"&">>), LT, <<"<">>), GT, <<">">>), QUOT, <<"\"">>), APOS, <<"'">>)

\* NewsMonitor._clean_html
clean_html(t) ==
    LET t1 == StripTags(t)
        t2 == Replace(t1, AMP, <<"&">>)
        t3 == Replace(t2, LT, <<"<">>)
        t4 == Replace(t3, GT, <<">">>)
        t5 == Replace(t4, QUOT, <<"\"">>)
        t6 == Replace(t5, APOS, <<"'">>)
    IN  Strip(t6)

----------------------------------------------------------------------------
(* NewsMonitor.fetch_google_news: the GET, raise_for_status, and the regex  *)
(* parsing of the response body.                                            *)

ItemOpen     == <<"<","i","t","e","m",">">>
ItemClose    == <<"<","/","i","t","e","m",">">>
TitleOpen    == <<"<","t","i","t","l","e",">">>
TitleClose   == <<"<","/","t","i","t","l","e",">">>
LinkOpen     == <<"<","l","i","n","k",">">>
LinkClose    == <<"<","/","l","i","n","k",">">>
PubDateOpen  == <<"<","p","u","b","D","a","t","e",">">>
PubDateClose == <<"<","/","p","u","b","D","a","t","e",">">>
SourceOpen   == <<"<","s","o","u","r","c","e">>
SourceClose  == <<"<","/","s","o","u","r","c","e",">">>
Unknown      == <<"U","n","k","n","o","w","n">>

\* items[:20]
ItemLimit == 20

NoMatch == [found |-> FALSE, group |-> <<>>]

\* re.findall(r'<item>(.*?)</item>', s, re.DOTALL): the blocks between an
\* <item> and the nearest </item> after it, scanning on after each match.
RECURSIVE FindAllItems(_)
FindAllItems(s) ==
    LET i == Find(s, ItemOpen, 1)
        j == IF i = 0 THEN 0 ELSE Find(s, ItemClose, i + Len(ItemOpen))
    IN  IF i = 0 \/ j = 0 THEN <<>>
        ELSE <<SubSeq(s, i + Len(ItemOpen), j - 1)>>
             \o FindAllItems(SubSeq(s, j + Len(ItemClose), Len(s)))

\* the group of the lazy (.*?) that starts at `from` and ends before the
\* nearest `close`; '.' does not match a line break (no re.DOTALL)
LazyGroup(s, from, close) ==
    LET j == Find(s, close, from)
    IN  IF j # 0 /\ \A x \in from..(j - 1) : s[x] # "\n"
        THEN [found |-> TRUE, group |-> SubSeq(s, from, j - 1)]
        ELSE NoMatch

\* re.search(open + r'(.*?)' + close, s): the leftmost start that matches
SearchTag(s, open, close) ==
    LET starts == {i \in 1..Len(s) :
                     /\ StartsAt(s, i, open)
                     /\ LazyGroup(s, i + Len(open), close).found}
    IN  IF starts = {} THEN NoMatch
        ELSE LazyGroup(s, (CHOOSE i \in starts : \A j \in starts : i <= j)
                          + Len(open), close)

\* re.search(r'<source[^>]*>(.*?)</source>', s): [^>]* runs to the first '>'
SearchSource(s) ==
    LET After(i) == Find(s, <<">">>, i + Len(SourceOpen))
        starts == {i \in 1..Len(s) :
                     /\ StartsAt(s, i, SourceOpen)
                     /\ After(i) # 0
                     /\ LazyGroup(s, After(i) + 1, SourceClose).found}
    IN  IF starts = {} THEN NoMatch
        ELSE LazyGroup(s, After(CHOOSE i \in starts : \A j \in starts : i <= j)
                          + 1, SourceClose)

\* A slip of the item test: one of the two tags is enough.
ItemArticlesEitherTag(item) ==
    LET title_match == SearchTag(item, TitleOpen, TitleClose)
        link_match  == SearchTag(item, LinkOpen, LinkClose)
    IN  IF title_match.found \/ link_match.found
        THEN <<[title   |-> clean_html(title_match.group),
                link    |-> link_match.group,
                pubDate |-> <<>>,
                source  |-> Unknown]>>
        ELSE <<>>

\* the body of the for loop (lines 73-84): what one item block appends
ItemArticles(item) ==
    LET title_match   == SearchTag(item, TitleOpen, TitleClose)
        link_match    == SearchTag(item, LinkOpen, LinkClose)
        pubdate_match == SearchTag(item, PubDateOpen, PubDateClose)
        source_match  == SearchSource(item)
    IN  IF title_match.found /\ link_match.found
        THEN <<[title   |-> clean_html(title_match.group),
                link    |-> link_match.group,
                pubDate |-> IF pubdate_match.found THEN pubdate_match.group
                            ELSE <<>>,
                source  |-> IF source_match.found THEN source_match.group
                            ELSE Unknown]>>
        ELSE <<>>

\* for item in items[:20]: ...
RECURSIVE ParseItems(_)
ParseItems(items) ==
    IF items = <<>> THEN <<>>
    ELSE ItemArticles(Head(items)) \o ParseItems(Tail(items))

Min(a, b) == IF a <= b THEN a ELSE b

\* requests.get(rss_url, timeout=30) raises (a transport error, or no byte
\* within 30 s), returns a response with a status code and a body, or does
\* not return: the timeout bounds the wait for each read, not the call, and
\* a server that keeps sending keeps the call
GetReturns(resp) == resp.kind # "no_end"
GetRaised(resp) == resp.kind = "exception"

\* response.raise_for_status(): HTTPError for a 4xx or 5xx status
RaiseForStatus(resp) == resp.status_code >= 400 /\ resp.status_code < 600

\* the try block (lines 66-84): the exception it ends with, if any, and the
\* articles appended to news_items by then
FetchTry(resp) ==
    IF ~GetReturns(resp) THEN [returned |-> FALSE, exc |-> "", items |-> <<>>]
    ELSE IF GetRaised(resp)
    THEN [returned |-> TRUE, exc |-> "RequestException", items |-> <<>>]
    ELSE IF RaiseForStatus(resp)
    THEN [returned |-> TRUE, exc |-> "HTTPError", items |-> <<>>]
    ELSE LET items == FindAllItems(resp.text)
         IN  [returned |-> TRUE,
              exc      |-> "",
              items    |-> ParseItems(SubSeq(items, 1,
                                             Min(Len(items), ItemLimit)))]

\* A slip of the except clause: only the HTTPError of raise_for_status.
FetchCatchesHttpErrorOnly(exc) == exc = "HTTPError"

\* except Exception: every exception of the try block is caught
FetchCatches(exc) == TRUE

\* fetch_google_news: whether the call returned, the list returned, and
\* whether an exception escaped
fetch_google_news(resp) ==
    LET r == FetchTry(resp)
    IN  [returned |-> r.returned,
         raised   |-> r.exc # "" /\ ~FetchCatches(r.exc),
         items    |-> r.items]

HexDigits == <<"0","1","2","3","4","5","6","7","8","9","A","B","C","D","E","F">>

\* the escape of one byte: '%' and two capital hexadecimal digits
PercentByte(b) == <<"%", HexDigits[(b \div 16) + 1], HexDigits[(b % 16) + 1]>>

\* c.encode('utf-8') of a character below U+0800: one byte, or two
Utf8(n) == IF n < 128 THEN <<n>> ELSE <<192 + (n \div 64), 128 + (n % 64)>>

\* the characters quote() leaves as they are: letters, digits, "_.-~" and
\* the default safe='/'
QuoteSafe ==
    {chr(n) : n \in (48..57) \cup (65..90) \cup (97..122)}
    \cup {"_", ".", "-", "~", "/"}

\* urllib.parse.quote(query): every other character becomes the escapes of
\* its UTF-8 bytes
Quote(q) ==
    Flatten([i \in 1..Len(q) |->
        IF q[i] \in QuoteSafe THEN <<q[i]>>
        ELSE LET bytes == Utf8(ord[q[i]])
             IN  Flatten([j \in 1..Len(bytes) |-> PercentByte(bytes[j])])])

\* the default of the parameter `language`
DefaultLanguage == <<"e","n">>

\* A slip of fetch_google_news: the query is dropped, the top stories fetched.
FeedUrlIgnoresQuery(query, language) ==
    [feed |-> "top", q |-> <<>>, hl |-> language]

\* lines 58-63: the feed the GET goes to (`if query:` is false for None and
\* ""), with the query escaped and the language as it is
FeedUrl(query, language) ==
    IF query # None /\ query[1] # <<>>
    THEN [feed |-> "search", q |-> Quote(query[1]), hl |-> language]
    ELSE [feed |-> "top", q |-> <<>>, hl |-> language]

----------------------------------------------------------------------------
(* NewsMonitor.check_keyword_in_news                                        *)

\* A slip of the test: the title is compared as it is, not lowercased.
CheckKeywordTitleAsIs(items, kw) ==
    SelectSeq(items, LAMBDA item : Contains(item.title, Lower(kw)))

\* lines 103-110: the items whose lowercased title holds keyword.lower()
RECURSIVE check_keyword_in_news(_, _)
check_keyword_in_news(items, kw) ==
    IF items = <<>> THEN <<>>
    ELSE LET keyword_lower == Lower(kw)
             item == Head(items)
         IN  (IF Contains(Lower(item.title), keyword_lower)
              THEN <<item>> ELSE <<>>)
             \o check_keyword_in_news(Tail(items), kw)

----------------------------------------------------------------------------
(* Rendering, the Brevo send, and the steps of run_keyword_monitor.         *)

Anchor(item) == [href |-> item.link, text |-> item.title,
                 source |-> item.source, pubDate |-> item.pubDate]

\* create_daily_digest_html: one anchor per item, or the placeholder
\* paragraph when the list is empty
create_daily_digest_html(items) ==
    [kind        |-> "digest",
     keyword     |-> <<>>,
     count       |-> 0,
     anchors     |-> [i \in 1..Len(items) |-> Anchor(items[i])],
     placeholder |-> items = <<>>]

\* create_keyword_alert_html: the keyword, the count, one anchor per match
create_keyword_alert_html(kw, items) ==
    [kind        |-> "alert",
     keyword     |-> kw,
     count       |-> Len(items),
     anchors     |-> [i \in 1..Len(items) |-> Anchor(items[i])],
     placeholder |-> FALSE]

DAILY_NEWS_RECIPIENT   == "DAILY_NEWS_RECIPIENT"
ILKYAR_ALERT_RECIPIENT == "ILKYAR_ALERT_RECIPIENT"

\* A slip of the success test: every 2xx status counts as sent.
SendTryAny2xx(outcome) ==
    IF outcome.kind = "no_answer"
    THEN [returned |-> FALSE, exc |-> "", result |-> FALSE, posts |-> 1]
    ELSE IF outcome.kind = "exception"
    THEN [returned |-> TRUE, exc |-> "RequestException", result |-> FALSE,
          posts |-> 1]
    ELSE [returned |-> TRUE, exc |-> "", posts |-> 1,
          result |-> outcome.status_code >= 200 /\ outcome.status_code < 300]

\* the try block of send_email (lines 231-242): one requests.post, then the
\* status test. The call is given no timeout: when the server never answers
\* it does not return, and nothing after it is reached.
SendTry(outcome) ==
    IF outcome.kind = "no_answer"
    THEN [returned |-> FALSE, exc |-> "", result |-> FALSE, posts |-> 1]
    ELSE IF outcome.kind = "exception"
    THEN [returned |-> TRUE, exc |-> "RequestException", result |-> FALSE,
          posts |-> 1]
    ELSE [returned |-> TRUE, exc |-> "", posts |-> 1,
          result |-> outcome.status_code \in {200, 201}]

\* A slip of send_email: no except clause, the exception escapes.
SendCatchesNothing(exc) == FALSE

\* except Exception (line 244): caught, send_email returns False
SendCatches(exc) == TRUE

\* send_email: whether the call returned, the boolean returned, the POSTs
\* made, and whether an exception escaped
send_email(outcome) ==
    LET r == SendTry(outcome)
    IN  [returned |-> r.returned,
         raised   |-> r.exc # "" /\ ~SendCatches(r.exc),
         result   |-> r.result,
         posts    |-> r.posts]

\* A slip of the de-duplication: the last item of a title is kept.
RECURSIVE RemoveDuplicatesKeepLast(_)
RemoveDuplicatesKeepLast(items) ==
    IF items = <<>> THEN <<>>
    ELSE LET item == Head(items)
             rest == Tail(items)
         IN  (IF \E i \in 1..Len(rest) : rest[i].title = item.title
              THEN <<>> ELSE <<item>>) \o RemoveDuplicatesKeepLast(rest)

\* A slip of the de-duplication: nothing is dropped.
RemoveDuplicatesNone(items) == items

\* lines 288-293: the loop over all_news with seen_titles and unique_news
RECURSIVE DedupLoop(_, _, _)
DedupLoop(items, seen_titles, unique) ==
    IF items = <<>> THEN unique
    ELSE LET item == Head(items)
         IN  IF item.title \notin seen_titles
             THEN DedupLoop(Tail(items), seen_titles \cup {item.title},
                            Append(unique, item))
             ELSE DedupLoop(Tail(items), seen_titles, unique)

RemoveDuplicates(items) == DedupLoop(items, {}, <<>>)

Ilkyar          == <<"i","l","k","y","a","r">>
IlkyarUpper     == <<"I","L","K","Y","A","R">>
IlkyarCapital   == <<"I","l","k","y","a","r">>
Weather         == <<"w","e","a","t","h","e","r">>
RallyTitle      == <<"i","l","k","y","a","r"," ","r","a","l","l","y"," ","d","r","a","w","s"," ","c","r","o","w","d">>
WeatherTitle    == <<"w","e","a","t","h","e","r"," ","u","p","d","a","t","e">>
ProtestTitle    == <<"I","L","K","Y","A","R"," ","p","r","o","t","e","s","t"," ","u","p","d","a","t","e">>
IlkyarishTitle  == <<"s","o","m","e","t","h","i","n","g","-","i","l","k","y","a","r","i","s","h">>

\* A slip of the routing test: the keyword is compared as it is.
AlertRecipientExact(kw) ==
    IF kw = Ilkyar THEN ILKYAR_ALERT_RECIPIENT ELSE DAILY_NEWS_RECIPIENT

\* lines 306-309: where the alert of a keyword goes
AlertRecipient(kw) ==
    IF Lower(kw) = Ilkyar THEN ILKYAR_ALERT_RECIPIENT
    ELSE DAILY_NEWS_RECIPIENT

----------------------------------------------------------------------------
(* Bounded inputs.                                                          *)

MaxTokens == 3

SeqsUpTo(S, n) == UNION {[1..m -> S] : m \in 0..n}

\* pieces title texts are put together from
CleanTokens ==
    {AMP, LT, GT, QUOT, APOS, <<"a","m","p",";">>, <<"l","t",";">>,
     <<"<">>, <<">">>, <<"b">>, <<" ">>, <<"&">>, <<"<","b",">">>,
     <<chr(160)>>}

CleanInputs == {Flatten(ts) : ts \in SeqsUpTo(CleanTokens, MaxTokens)}

MaxTail == 2

\* the text of one item block: each of the four elements is there or not
Element(open, close, v) == IF v = None THEN <<>> ELSE open \o v[1] \o close

BlockText(b) ==
    ItemOpen \o Element(TitleOpen, TitleClose, b.title)
             \o Element(LinkOpen, LinkClose, b.link)
             \o Element(PubDateOpen, PubDateClose, b.pubDate)
             \o Element(SourceOpen \o <<">">>, SourceClose, b.source)
    \o ItemClose

FeedText(blocks) == Flatten([i \in 1..Len(blocks) |-> BlockText(blocks[i])])

Block(t, l) == [title |-> t, link |-> l, pubDate |-> None, source |-> None]

\* the n-th block of a feed, in one of five shapes
BlockKinds == {"both", "full", "noTitle", "noLink", "brokenTitle"}
KindBlock(kind, n) ==
    LET t == Some(<<LowerCase[n]>>)
        l == Some(<<"u", LowerCase[n]>>)
    IN  CASE kind = "both"        -> Block(t, l)
          [] kind = "full"        -> [title |-> t, link |-> l,
                                      pubDate |-> Some(<<"d">>),
                                      source |-> Some(<<"s">>)]
          [] kind = "noTitle"     -> Block(None, l)
          [] kind = "noLink"      -> Block(t, None)
          [] kind = "brokenTitle" -> Block(Some(t[1] \o <<"\n">> \o t[1]), l)

\* feeds of p complete blocks followed by a tail of blocks of any shape, so
\* that the tail lies before, across and after the limit of 20 items
PadSizes == {0, 1, ItemLimit - 1, ItemLimit}
ParseFeeds ==
    {[i \in 1..(p + Len(tail)) |->
        IF i <= p THEN KindBlock("both", i) ELSE KindBlock(tail[i - p], i)] :
       p \in PadSizes, tail \in SeqsUpTo(BlockKinds, MaxTail)}

OkResponse(blocks) ==
    [kind |-> "response", status_code |-> 200, text |-> FeedText(blocks)]

MaxArticles == 3

Article(t, l) == [title |-> t, link |-> l, pubDate |-> <<>>, source |-> Unknown]

\* titles and keywords the matcher is tried on: upper and lower case, a
\* keyword at the start, inside and at the end of a title, and the empty one
MatchTitles == {<<"a">>, <<"A","b">>, <<"b","a">>,
                ProtestTitle, IlkyarishTitle, WeatherTitle}
MatchKeywords == {<<>>, <<"a">>, <<"A">>, <<"a","B">>, <<"b","b">>,
                  Ilkyar, IlkyarUpper}
MatchArticles == {Article(t, <<"u">>) : t \in MatchTitles}

MaxKeywords == 2

\* the feeds of a run: the two-item feed of the end-to-end scenario, and a
\* feed that repeats one of its titles under another link
ScenarioFeed == <<Block(Some(RallyTitle), Some(<<"u","1">>)),
                  Block(Some(WeatherTitle), Some(<<"u","2">>))>>
SearchFeed   == <<Block(Some(RallyTitle), Some(<<"u","3">>)),
                  Block(Some(ProtestTitle), Some(<<"u","4">>))>>

\* what requests.get can produce: a response with a status and a body, an
\* exception, or a body that never ends. A 304 is read without a body, so
\* its text is empty; a 300 is no redirect requests follows and keeps its
\* body.
FeedResponse(status, blocks) ==
    [kind |-> "response", status_code |-> status, text |-> FeedText(blocks)]
TransportError == [kind |-> "exception", status_code |-> 0, text |-> <<>>]
UnendingBody   == [kind |-> "no_end", status_code |-> 0, text |-> <<>>]
RunResponses ==
    {FeedResponse(200, ScenarioFeed), FeedResponse(200, SearchFeed),
     FeedResponse(300, ScenarioFeed), FeedResponse(304, <<>>),
     FeedResponse(404, ScenarioFeed),
     TransportError, UnendingBody}

\* what requests.post can produce: a response, an exception, or (it has no
\* timeout) nothing at all
SendOutcomes ==
    {[kind |-> "response", status_code |-> c] : c \in {200, 201, 204, 500}}
    \cup {[kind |-> "exception", status_code |-> 0],
          [kind |-> "no_answer", status_code |-> 0]}

\* keyword lists a deployment may configure: distinct, non-empty keywords
RunKeywords == {Ilkyar, IlkyarCapital, Weather}
KeywordLists ==
    {ks \in SeqsUpTo(RunKeywords, MaxKeywords) :
        \A i, j \in 1..Len(ks) : i # j => ks[i] # ks[j]}

----------------------------------------------------------------------------
(* _clean_html called on a text, and again on its own result.               *)

NoHtml == [kind |-> "none", keyword |-> <<>>, count |-> 0, anchors |-> <<>>,
           placeholder |-> FALSE]

NoSend == [to |-> "", outcome |-> [kind |-> "none", status_code |-> 0],
           returned |-> FALSE, result |-> FALSE, posts |-> 0]

cleanVars == <<text, cleaned, recleaned>>
fetchVars == <<response, feed_blocks>>
loopVars  == <<keyword, keyword_news, all_news, unique_news, matching_items>>
runVars   == <<entry, MONITORED_KEYWORDS, k, html_content, log, last_send,
               raised>>

InitRun0 ==
    /\ entry = "" /\ MONITORED_KEYWORDS = <<>> /\ k = 0
    /\ html_content = NoHtml /\ log = <<>> /\ raised = FALSE
    /\ last_send = NoSend
InitLoop0 ==
    /\ keyword = <<>> /\ keyword_news = <<>> /\ all_news = <<>>
    /\ unique_news = <<>> /\ matching_items = <<>>
InitClean0 == text = <<>> /\ cleaned = <<>> /\ recleaned = <<>>
NoResponse == [kind |-> "none", status_code |-> 0, text |-> <<>>]
InitFetch0 == response = NoResponse /\ feed_blocks = <<>>

InitClean ==
    /\ pc = "clean"
    /\ text \in CleanInputs
    /\ cleaned = <<>> /\ recleaned = <<>>
    /\ news_items = <<>>
    /\ InitFetch0 /\ InitLoop0 /\ InitRun0

Clean ==
    /\ pc = "clean"
    /\ cleaned' = clean_html(text)
    /\ pc' = "reclean"
    /\ UNCHANGED <<text, recleaned, news_items, fetchVars, loopVars, runVars>>

CleanAgain ==
    /\ pc = "reclean"
    /\ recleaned' = clean_html(cleaned)
    /\ pc' = "cleaned"
    /\ UNCHANGED <<text, cleaned, news_items, fetchVars, loopVars, runVars>>

NextClean == Clean \/ CleanAgain

SpecClean == InitClean /\ [][NextClean]_vars

\* C9 as stated: cleaning a cleaned text changes nothing, for every text.
C9_CleanIdempotent == pc = "cleaned" => recleaned = cleaned

\* C9 amended: cleaning is idempotent on every text that holds no '&' (no
\* entity survives or is produced): stripping tags and trimming is stable.
C9_CleanIdempotentNoEntity ==
    (pc = "cleaned" /\ ~Contains(text, <<"&">>)) => recleaned = cleaned

\* a text without '&' that cleaning changes: its tag is removed, then the
\* blank the tag stood after
C9_Witness ==
    /\ pc = "cleaned"
    /\ text = <<"b", " ", "<", "b", ">">>
    /\ cleaned = <<"b">>
    /\ recleaned = cleaned

----------------------------------------------------------------------------
(* fetch_google_news called on a feed the server answered with 200.         *)

InitFetch ==
    /\ pc = "fetch"
    /\ feed_blocks \in ParseFeeds
    /\ response = OkResponse(feed_blocks)
    /\ news_items = <<>>
    /\ InitClean0 /\ InitLoop0 /\ InitRun0

Fetch ==
    /\ pc = "fetch"
    /\ LET r == fetch_google_news(response)
       IN  /\ news_items' = r.items
           /\ raised' = r.raised
           /\ pc' = IF r.returned THEN "fetched" ELSE "fetch_blocked"
    /\ log' = Append(log, [op |-> "GET", url |-> FeedUrl(None, DefaultLanguage)])
    /\ UNCHANGED <<entry, MONITORED_KEYWORDS, k, html_content, last_send,
                   cleanVars, fetchVars, loopVars>>

NextFetch == Fetch

SpecFetch == InitFetch /\ [][NextFetch]_vars

HasTags(b) == b.title # None /\ b.link # None
SingleLine(v) == v # None /\ ~Contains(v[1], <<"\n">>)
HasMatches(b) == SingleLine(b.title) /\ SingleLine(b.link)

\* the articles are those of the blocks `bs` that pass `Test`, in order
ArticlesAre(bs, Test(_)) ==
    LET good == SelectSeq(bs, Test)
    IN  /\ Len(news_items) = Len(good)
        /\ \A i \in 1..Len(good) :
              /\ news_items[i].title = good[i].title[1]
              /\ news_items[i].link = good[i].link[1]

\* C8 as stated: every block with a title and a link tag yields one article
\* and every other block none, in document order.
C8_EveryBlock == pc = "fetched" => ArticlesAre(feed_blocks, HasTags)

\* C8 amended: among the first 20 item blocks of a fetched feed, a block
\* yields exactly one article when its title and its link element are both
\* there with no line break inside, and none otherwise, in document order;
\* blocks after the 20th yield nothing.
C8_FirstTwentyBlocks ==
    pc = "fetched" =>
        ArticlesAre(SubSeq(feed_blocks, 1, Min(Len(feed_blocks), ItemLimit)),
                    HasMatches)

\* a feed of 21 blocks: one of the first 20 lacks its title, the 21st is
\* complete, and 19 articles come out
C8_Witness ==
    /\ pc = "fetched"
    /\ Len(feed_blocks) = ItemLimit + 1
    /\ feed_blocks[ItemLimit].title = None
    /\ HasTags(feed_blocks[ItemLimit + 1])
    /\ Len(news_items) = ItemLimit - 1
    /\ news_items[ItemLimit - 1].title = <<LowerCase[ItemLimit - 1]>>

----------------------------------------------------------------------------
(* check_keyword_in_news called on a list of articles and a keyword.        *)

InitMatch ==
    /\ pc = "match"
    /\ news_items \in SeqsUpTo(MatchArticles, MaxArticles)
    /\ keyword \in MatchKeywords
    /\ matching_items = <<>>
    /\ keyword_news = <<>> /\ all_news = <<>> /\ unique_news = <<>>
    /\ InitClean0 /\ InitFetch0 /\ InitRun0

CheckKeyword ==
    /\ pc = "match"
    /\ matching_items' = check_keyword_in_news(news_items, keyword)
    /\ pc' = "matched"
    /\ UNCHANGED <<news_items, keyword, keyword_news, all_news, unique_news,
                   cleanVars, fetchVars, runVars>>

NextMatch == CheckKeyword

SpecMatch == InitMatch /\ [][NextMatch]_vars

\* the keyword occurs in the title when case is ignored, letter by letter
OccursIgnoringCase(kw, t) ==
    \E off \in 0..(Len(t) - Len(kw)) :
        \A j \in 1..Len(kw) : LowerChar(t[off + j]) = LowerChar(kw[j])

\* `out` is `items` restricted to the positions `idx`, in input order
IsSelection(out, items, idx) ==
    LET Nth(j) == CHOOSE i \in idx : Cardinality({x \in idx : x < i}) = j - 1
    IN  /\ Len(out) = Cardinality(idx)
        /\ \A j \in 1..Len(out) : out[j] = items[Nth(j)]

IsFilterOf(out, items, Pass(_)) ==
    IsSelection(out, items, {i \in 1..Len(items) : Pass(items[i])})

\* C2: check_keyword_in_news returns exactly the articles whose lowercased
\* title contains the lowercased keyword, in input order, each unaltered
\* and none added or repeated.
C2_KeywordFilter ==
    pc = "matched" =>
        IsFilterOf(matching_items, news_items,
                   LAMBDA item : OccursIgnoringCase(keyword, item.title))

\* "ilkyar" keeps "ILKYAR protest update" and "something-ilkyarish" and
\* drops "weather update" between them
C2_Witness ==
    /\ pc = "matched"
    /\ keyword = Ilkyar
    /\ Len(news_items) = 3
    /\ news_items[1].title = ProtestTitle
    /\ news_items[2].title = WeatherTitle
    /\ news_items[3].title = IlkyarishTitle
    /\ matching_items = <<news_items[1], news_items[3]>>

----------------------------------------------------------------------------
(* run() and run_keyword_monitor(): one step per network call, each with    *)
(* the computation that follows it up to the next call.                     *)

\* each response a run can get, with what fetch_google_news makes of it
Fetched == {<<resp, fetch_google_news(resp)>> : resp \in RunResponses}

InitRun ==
    /\ entry \in {"run", "run_keyword_monitor"}
    /\ pc = IF entry = "run" THEN "digest_fetch" ELSE "monitor_fetch"
    /\ MONITORED_KEYWORDS \in KeywordLists
    /\ k = 0
    /\ news_items = <<>>
    /\ html_content = NoHtml /\ log = <<>> /\ raised = FALSE
    /\ last_send = NoSend
    /\ InitClean0 /\ InitFetch0 /\ InitLoop0

\* the callers leave `language` at its default
Get(query)  == [op |-> "GET", url |-> FeedUrl(query, DefaultLanguage)]
Render(doc) == [op |-> "render", kind |-> doc.kind]
Post(to, doc, r) ==
    [op |-> "POST", to |-> to, html |-> doc, returned |-> r.returned,
     result |-> r.result]

\* `n` POST entries appended to the log
RECURSIVE Posts(_, _)
Posts(n, e) == IF n = 0 THEN <<>> ELSE <<e>> \o Posts(n - 1, e)

\* run_daily_digest, lines 255-261: fetch the top stories, render the
\* digest; a GET that does not return leaves the run waiting in it
DigestFetch ==
    /\ pc = "digest_fetch"
    /\ \E got \in Fetched :
         LET resp == got[1]
             r == got[2]
             html == create_daily_digest_html(r.items)
             goes_on == r.returned /\ ~r.raised
         IN  /\ response' = resp
             /\ raised' = r.raised
             /\ news_items' = r.items
             /\ html_content' = IF goes_on THEN html ELSE html_content
             /\ log' = log \o <<Get(None)>>
                           \o (IF goes_on THEN <<Render(html)>> ELSE <<>>)
             /\ pc' = IF ~r.returned THEN "fetch_blocked"
                      ELSE IF r.raised THEN "raised" ELSE "digest_send"
    /\ UNCHANGED <<entry, MONITORED_KEYWORDS, k, last_send, feed_blocks,
                   cleanVars, loopVars>>

\* run_daily_digest, line 263, and the return into run(): the result of
\* send_email is not looked at; a call that does not return leaves the run
\* waiting in it
DigestSend ==
    /\ pc = "digest_send"
    /\ \E outcome \in SendOutcomes :
         LET r == send_email(outcome)
         IN  /\ last_send' = [to |-> DAILY_NEWS_RECIPIENT, outcome |-> outcome,
                              returned |-> r.returned, result |-> r.result,
                              posts |-> r.posts]
             /\ raised' = r.raised
             /\ log' = log \o Posts(r.posts, Post(DAILY_NEWS_RECIPIENT,
                                                  html_content, r))
             /\ pc' = IF ~r.returned THEN "send_blocked"
                      ELSE IF r.raised THEN "raised" ELSE "loop"
             /\ k' = IF r.returned THEN 1 ELSE k
    /\ UNCHANGED <<entry, MONITORED_KEYWORDS, news_items, html_content,
                   fetchVars, cleanVars, loopVars>>

\* run_keyword_monitor called without a list, lines 274-275
MonitorFetch ==
    /\ pc = "monitor_fetch"
    /\ \E got \in Fetched :
         LET resp == got[1]
             r == got[2]
         IN  /\ response' = resp
             /\ raised' = r.raised
             /\ news_items' = r.items
             /\ pc' = IF ~r.returned THEN "fetch_blocked"
                      ELSE IF r.raised THEN "raised" ELSE "loop"
             /\ k' = IF r.returned THEN 1 ELSE k
    /\ log' = Append(log, Get(None))
    /\ UNCHANGED <<entry, MONITORED_KEYWORDS, html_content, last_send,
                   feed_blocks, cleanVars, loopVars>>

\* the loop body up to the send, lines 278-303: search, merge, drop the
\* duplicates, match, and render the alert when something matched (each
\* local is bound to its value once, in the order the code computes them);
\* a GET that does not return leaves the run waiting in it, the locals of
\* the loop as they were
KeywordSearch ==
    /\ pc = "loop"
    /\ k <= Len(MONITORED_KEYWORDS)
    /\ \E got \in Fetched :
       \E kw \in {MONITORED_KEYWORDS[k]} :
       \E merged \in {news_items \o got[2].items} :
       \E unique \in {RemoveDuplicates(merged)} :
       \E matches \in {check_keyword_in_news(unique, kw)} :
       \E html \in {create_keyword_alert_html(kw, matches)} :
         LET resp    == got[1]
             r       == got[2]
             goes_on == r.returned /\ ~r.raised
         IN  /\ response' = resp
             /\ raised' = r.raised
             /\ keyword' = kw
             /\ keyword_news' = IF r.returned THEN r.items ELSE keyword_news
             /\ all_news' = IF r.returned THEN merged ELSE all_news
             /\ unique_news' = IF r.returned THEN unique ELSE unique_news
             /\ matching_items' = IF r.returned THEN matches
                                  ELSE matching_items
             /\ log' = log \o <<Get(Some(kw))>>
                           \o (IF goes_on /\ matches # <<>>
                               THEN <<Render(html)>> ELSE <<>>)
             /\ pc' = IF ~r.returned THEN "fetch_blocked"
                      ELSE IF r.raised THEN "raised"
                      ELSE IF matches # <<>> THEN "alert_send" ELSE "loop"
             /\ k' = IF goes_on /\ matches = <<>> THEN k + 1 ELSE k
             /\ html_content' = IF goes_on /\ matches # <<>> THEN html
                                ELSE html_content
    /\ UNCHANGED <<entry, MONITORED_KEYWORDS, news_items, last_send,
                   feed_blocks, cleanVars>>

\* lines 305-309: the alert goes out, and the loop goes on whatever
\* send_email returned; a call that does not return leaves the run waiting
\* in it
AlertSend ==
    /\ pc = "alert_send"
    /\ \E outcome \in SendOutcomes :
         LET r  == send_email(outcome)
             to == AlertRecipient(keyword)
         IN  /\ last_send' = [to |-> to, outcome |-> outcome,
                              returned |-> r.returned, result |-> r.result,
                              posts |-> r.posts]
             /\ raised' = r.raised
             /\ log' = log \o Posts(r.posts, Post(to, html_content, r))
             /\ pc' = IF ~r.returned THEN "send_blocked"
                      ELSE IF r.raised THEN "raised" ELSE "loop"
             /\ k' = IF r.returned THEN k + 1 ELSE k
    /\ UNCHANGED <<entry, MONITORED_KEYWORDS, news_items, html_content,
                   fetchVars, cleanVars, loopVars>>

\* the loop is over: run_keyword_monitor returns (and run() after it)
Finish ==
    /\ pc = "loop"
    /\ k > Len(MONITORED_KEYWORDS)
    /\ pc' = "done"
    /\ UNCHANGED <<entry, MONITORED_KEYWORDS, k, news_items, html_content,
                   log, last_send, raised, fetchVars, cleanVars, loopVars>>

NextRun ==
    \/ DigestFetch
    \/ DigestSend
    \/ MonitorFetch
    \/ KeywordSearch
    \/ AlertSend
    \/ Finish

SpecRun == InitRun /\ [][NextRun]_vars

\* the program is sequential and waits on no other process: the step it is
\* at is taken. A network call that never returns is itself a step, into
\* "fetch_blocked" (a GET whose body never ends) or "send_blocked" (a POST
\* that gets no answer), where no step is left to take.
SpecRunFair == SpecRun /\ WF_vars(NextRun)

----------------------------------------------------------------------------
(* Properties of a run.                                                     *)

Gets     == SelectSeq(log, LAMBDA e : e.op = "GET")
PostsOf(l) == SelectSeq(l, LAMBDA e : e.op = "POST")
Titles(items) == {items[i].title : i \in 1..Len(items)}
FirstOfTitle(items) ==
    {i \in 1..Len(items) : \A j \in 1..(i - 1) : items[j].title # items[i].title}

\* a keyword of the list has been searched for and its alert, if any, sent
KeywordDone == pc \in {"loop", "done"} /\ k > 1

\* the run is at the send of the digest, or of an alert: about to make the
\* call, or waiting in a call that got no answer
AtDigestSend ==
    pc = "digest_send" \/ (pc = "send_blocked" /\ html_content.kind = "digest")
AtAlertSend ==
    pc = "alert_send" \/ (pc = "send_blocked" /\ html_content.kind = "alert")

\* C1: the de-duplicated list has one item per distinct title of the
\* concatenation news_items + keyword_news, each the first item of its title,
\* in first-seen order.
C1_Dedup ==
    /\ Len(unique_news) = Cardinality(Titles(all_news))
    /\ \A i, j \in 1..Len(unique_news) :
          i # j => unique_news[i].title # unique_news[j].title
    /\ IsSelection(unique_news, all_news, FirstOfTitle(all_news))

\* titles [A, B, A, C] under four links give [A, B, C] with A's first link
C1_Witness ==
    /\ Len(all_news) = 4
    /\ all_news[1].title = RallyTitle /\ all_news[2].title = WeatherTitle
    /\ all_news[3].title = RallyTitle /\ all_news[4].title = ProtestTitle
    /\ all_news[1].link # all_news[3].link
    /\ unique_news = <<all_news[1], all_news[2], all_news[4]>>

\* C3: what send_email returns is true exactly for status 200 or 201, false
\* for any other status and for a transport exception; no exception escapes
\* and one POST is made, never a second.
C3_SendResult ==
    last_send.posts # 0 =>
        /\ last_send.returned =>
              last_send.result =
                 (/\ last_send.outcome.kind = "response"
                  /\ last_send.outcome.status_code \in {200, 201})
        /\ last_send.returned = (last_send.outcome.kind # "no_answer")
        /\ last_send.posts = 1
        /\ ~raised /\ pc # "raised"

\* a 204 answer and a transport exception both come back as False
C3_Witness ==
    /\ last_send.posts = 1
    /\ last_send.returned
    /\ last_send.outcome.kind = "response"
    /\ last_send.outcome.status_code = 204
    /\ last_send.result = FALSE
    /\ \E i \in 1..Len(log) :
          log[i].op = "POST" /\ log[i].result = FALSE /\ i < Len(log)

AlertPosts == SelectSeq(log, LAMBDA e : e.op = "POST" /\ e.html.kind = "alert")

SameIgnoringCase(a, b) ==
    Len(a) = Len(b) /\ \A i \in 1..Len(a) : LowerChar(a[i]) = LowerChar(b[i])

\* C4 as stated: the alert of the keyword "ilkyar" goes to the special
\* recipient and the alert of every other keyword to the digest's recipient.
C4_RoutingByValue ==
    \A i \in 1..Len(AlertPosts) :
        AlertPosts[i].to = IF AlertPosts[i].html.keyword = Ilkyar
                           THEN ILKYAR_ALERT_RECIPIENT
                           ELSE DAILY_NEWS_RECIPIENT

\* C4 amended: the alert of a keyword that equals "ilkyar" when case is
\* ignored ("ilkyar", "Ilkyar", ...) goes to the special recipient, and the
\* alert of every other keyword to the digest's recipient; no alert goes
\* anywhere else.
C4_RoutingIgnoringCase ==
    \A i \in 1..Len(AlertPosts) :
        AlertPosts[i].to = IF SameIgnoringCase(AlertPosts[i].html.keyword, Ilkyar)
                           THEN ILKYAR_ALERT_RECIPIENT
                           ELSE DAILY_NEWS_RECIPIENT

\* one run alerts "Ilkyar" to the special recipient and "weather" to the
\* digest's
C4_Witness ==
    /\ Len(AlertPosts) = 2
    /\ AlertPosts[1].html.keyword = IlkyarCapital
    /\ AlertPosts[1].to = ILKYAR_ALERT_RECIPIENT
    /\ AlertPosts[2].html.keyword = Weather
    /\ AlertPosts[2].to = DAILY_NEWS_RECIPIENT

\* the log entries of the keyword processed last: those after its GET
LastGet == CHOOSE i \in 1..Len(log) :
              log[i].op = "GET" /\ \A j \in (i + 1)..Len(log) : log[j].op # "GET"
LastKeywordPosts == PostsOf(SubSeq(log, LastGet + 1, Len(log)))

ScenarioArticles == <<Article(RallyTitle, <<"u","1">>),
                      Article(WeatherTitle, <<"u","2">>)>>

\* the feed answered both fetches with the two scenario items and the
\* keyword is "ilkyar"
Scenario ==
    /\ entry = "run_keyword_monitor"
    /\ news_items = ScenarioArticles
    /\ keyword_news = ScenarioArticles
    /\ keyword = Ilkyar

\* C5: for a keyword, one POST is made when some title of the merged lists
\* holds the keyword (case ignored) and none otherwise; the alert lists each
\* matching title once and no other; in the scenario the one POST goes to
\* the special recipient and lists the first item only.
C5_OneAlertPerMatchingKeyword ==
    (KeywordDone \/ (pc = "send_blocked" /\ AtAlertSend)) =>
        LET hits == {t \in Titles(all_news) : OccursIgnoringCase(keyword, t)}
            sent == LastKeywordPosts
        IN  /\ hits = {} => sent = <<>>
            /\ hits # {} =>
                 /\ Len(sent) = 1
                 /\ sent[1].html.kind = "alert"
                 /\ sent[1].html.keyword = keyword
                 /\ sent[1].html.count = Cardinality(hits)
                 /\ Len(sent[1].html.anchors) = Cardinality(hits)
                 /\ {sent[1].html.anchors[i].text :
                        i \in 1..Len(sent[1].html.anchors)} = hits
            /\ Scenario =>
                 /\ Len(sent) = 1
                 /\ sent[1].to = ILKYAR_ALERT_RECIPIENT
                 /\ sent[1].html.anchors = <<Anchor(ScenarioArticles[1])>>

\* the end-to-end scenario has run: one POST, to the special recipient
C5_Witness ==
    /\ KeywordDone
    /\ Scenario
    /\ Len(all_news) = 4
    /\ Len(PostsOf(log)) = 1
    /\ log[Len(log)].to = ILKYAR_ALERT_RECIPIENT

\* the whole run is there: one GET per keyword after the first, in the
\* order of the list, and the digest's POST when run() was called
RunComplete ==
    /\ k = Len(MONITORED_KEYWORDS) + 1
    /\ Len(Gets) = 1 + Len(MONITORED_KEYWORDS)
    /\ \A i \in 1..Len(MONITORED_KEYWORDS) :
          Gets[i + 1].url = [feed |-> "search", hl |-> <<"e","n">>,
                             q |-> Quote(MONITORED_KEYWORDS[i])]
    /\ entry = "run" =>
          \E i \in 1..Len(log) : log[i].op = "POST" /\ log[i].html.kind = "digest"
    /\ ~raised

\* the step after a send that returned, success or failure: the keyword
\* loop after the digest's, the next keyword after an alert's
SendIsFollowed ==
    [][/\ (pc = "digest_send" /\ last_send'.returned)
             => (pc' = "loop" /\ k' = 1)
       /\ (pc = "alert_send" /\ last_send'.returned)
             => (pc' = "loop" /\ k' = k + 1)]_vars

\* C6: for every combination of outcomes of the sends, success or failure,
\* the step after the digest's send is the keyword loop and the step after an
\* alert's send is the next keyword, a run that has ended has made its GET
\* for every keyword of the list, and the run reaches its end. (A network
\* call that never returns has no outcome; the run then waits in that call.)
C6_SendFailuresDoNotStopRun ==
    /\ SendIsFollowed
    /\ [](pc = "done" => RunComplete)
    /\ <>(pc \in {"done", "send_blocked", "fetch_blocked"})

\* a run of two keywords ended after its digest and both alerts failed
C6_Witness ==
    /\ pc = "done"
    /\ entry = "run"
    /\ Len(MONITORED_KEYWORDS) = 2
    /\ Len(PostsOf(log)) = 3
    /\ \A i \in 1..3 :
          PostsOf(log)[i].returned /\ PostsOf(log)[i].result = FALSE
    /\ RunComplete

\* the list the last fetch returned
LastFetched == IF AtDigestSend \/ (pc \in {"loop", "done"} /\ k <= 1)
               THEN news_items ELSE keyword_news
AfterFetch == response.kind # "none"

\* a failed fetch leaves the run as if the feed had no article
TreatedAsEmpty ==
    /\ LastFetched = <<>>
    /\ ~raised /\ pc # "raised"
    /\ AtDigestSend =>
          html_content.placeholder /\ html_content.anchors = <<>>
    /\ (AtAlertSend \/ KeywordDone) =>
          /\ all_news = news_items
          /\ Titles(matching_items) \subseteq Titles(news_items)

\* C7 as stated: a transport error or a non-2xx response gives an empty
\* list, nothing is raised, and the run goes on as with zero articles.
C7_Non2xxIsEmpty ==
    (/\ AfterFetch
     /\ \/ response.kind = "exception"
        \/ /\ response.kind = "response"
           /\ (response.status_code < 200 \/ response.status_code >= 300))
    => TreatedAsEmpty

\* C7 amended: a transport error or a 4xx or 5xx response (the statuses
\* raise_for_status raises for) gives an empty list, nothing is raised, and
\* the run goes on as with zero articles: the digest shows the placeholder
\* and no alert rests on that fetch.
C7_ErrorStatusIsEmpty ==
    (/\ AfterFetch
     /\ \/ response.kind = "exception"
        \/ /\ response.kind = "response"
           /\ response.status_code >= 400 /\ response.status_code < 600)
    => TreatedAsEmpty

\* the top-stories fetch failed with a 404 that carried items, and the
\* digest is about to go out with the placeholder
C7_Witness ==
    /\ pc = "digest_send"
    /\ response.kind = "response" /\ response.status_code = 404
    /\ FindAllItems(response.text) # <<>>
    /\ news_items = <<>>
    /\ html_content.kind = "digest" /\ html_content.placeholder

\* C10: in run() the top-stories GET is the first entry of the log and the
\* only one; every keyword reached has exactly one search GET of its own;
\* the list each keyword merges with is the one the digest was rendered from.
C10_DigestSetFetchedOnce ==
    (entry = "run" /\ pc \notin {"digest_fetch"}) =>
        /\ log[1] = [op |-> "GET",
                     url |-> [feed |-> "top", q |-> <<>>, hl |-> <<"e","n">>]]
        /\ \A i \in 2..Len(Gets) :
              Gets[i].url = [feed |-> "search", hl |-> <<"e","n">>,
                             q |-> Quote(MONITORED_KEYWORDS[i - 1])]
        /\ Len(Gets) = 1 + (IF AtDigestSend THEN 0
                            ELSE IF AtAlertSend \/ pc = "fetch_blocked" THEN k
                            ELSE k - 1)
        /\ \A i \in 1..Len(log) :
              (log[i].op = "POST" /\ log[i].html.kind = "digest") =>
                  /\ i = 3
                  /\ log[i].html.anchors =
                        [n \in 1..Len(news_items) |-> Anchor(news_items[n])]
        /\ (AtAlertSend \/ KeywordDone) =>
              all_news = news_items \o keyword_news

\* run() ended after two keywords: three GETs, and the second keyword merged
\* its search result with the digest's two articles
C10_Witness ==
    /\ entry = "run" /\ pc = "done"
    /\ Len(MONITORED_KEYWORDS) = 2
    /\ Len(Gets) = 3
    /\ Len(news_items) = 2
    /\ Len(keyword_news) = 2
    /\ Len(all_news) = 4

====
